---- MODULE Spec2Model ----
(***************************************************************************)
(* Light War (src/main.py): the simulation core of class Game.             *)
(*                                                                         *)
(* The model keeps the fields of Game, Player, Enemy, Bullet and           *)
(* AuraPickup that the game logic reads, with the source's names and the   *)
(* source's numbers.  Positions and velocities are floating-point vectors  *)
(* driven by the keyboard and by random.uniform; they are not state of     *)
(* the model.  What the code computes from them is an input of the tick:   *)
(* which bullets have left the screen (Bullet.update) and the distance of  *)
(* every pair of entities that handle_collisions tests.  The results of    *)
(* random.random / random.randint are inputs of the tick as well.          *)
(* Rendering (draw_*, Star, trail, pulse, glow) and audio (MusicManager)   *)
(* never write a field of the simulation and are left out.                 *)
(***************************************************************************)
EXTENDS Integers, Sequences, FiniteSets, TLC

(***************************************************************************)
(* Bounds of the exploration (none of them is a number of the program).    *)
(***************************************************************************)
\* PLAYING ticks explored from a starting state.
MaxTicks == 2
\* Non-boss enemies alive at once (the code has no limit).
MaxRegular == 1
\* Pairs of entities within touching distance in one tick.
MaxContacts == 2
\* Bullets that leave the screen in one tick.
MaxOffscreen == 1
\* PLAYING ticks of a run without contacts (SpecRun).
RunTicks == 135

(***************************************************************************)
(* Program constants.                                                      *)
(***************************************************************************)
WIDTH == 900
HEIGHT == 700
FPS == 60
\* len(self.pickups) < 8 in handle_spawning
PickupCap == 8
\* Player.radius, Player.shoot_cooldown
PlayerRadius == 18
PlayerShootCooldown == 10
\* AuraPickup.radius
PickupRadius == 9
\* random.randint(20, self.shoot_cd) in Enemy.__init__
ShootTimerMin == 20

PLAYING == "PLAYING"
WORLD_COMPLETE == "WORLD_COMPLETE"
GAME_OVER == "GAME_OVER"
GameState == {PLAYING, WORLD_COMPLETE, GAME_OVER}

\* WorldConfig: player_speed is in tenths, the spawn rates are in thousandths
\* (the table's floats, scaled; the model reads neither: movement is not
\* modelled and the Bernoulli trials are inputs).
WorldConfig(n, speed, lives, gain, erate, arate, lo, hi, boss, req) ==
    [world_number |-> n, player_speed |-> speed, starting_lives |-> lives,
     aura_gain_per_pickup |-> gain, enemy_spawn_rate |-> erate,
     aura_spawn_rate |-> arate, enemy_level_range |-> <<lo, hi>>,
     boss_level |-> boss, aura_required_for_boss_spawn |-> req]

WORLD_CONFIGS ==
    << WorldConfig(1, 48, 6, 12, 12, 18, 1, 2, 4, 220),
       WorldConfig(2, 50, 6, 11, 14, 17, 1, 3, 5, 300),
       WorldConfig(3, 52, 5, 10, 16, 16, 2, 4, 6, 390),
       WorldConfig(4, 54, 5, 9, 18, 15, 3, 5, 7, 500),
       WorldConfig(5, 56, 4, 8, 20, 14, 4, 6, 8, 620),
       WorldConfig(6, 58, 4, 7, 22, 13, 5, 7, 9, 760),
       WorldConfig(7, 60, 3, 6, 26, 12, 6, 8, 10, 920) >>

\* len(WORLD_CONFIGS)
NumWorlds == Len(WORLD_CONFIGS)

\* WORLD_CONFIGS[i] with Python's 0-based index
ConfigAt(i) == WORLD_CONFIGS[i + 1]

Max(a, b) == IF a >= b THEN a ELSE b

(***************************************************************************)
(* Entities.                                                               *)
(***************************************************************************)
\* Enemy.__init__; timer is the value random.randint(20, shoot_cd) returned.
Enemy(level, boss, timer) ==
    [level |-> level, boss |-> boss,
     radius |-> 18 + level * 2 + (IF boss THEN 20 ELSE 0),
     hp |-> 10 + level * 6 + (IF boss THEN 80 ELSE 0),
     shoot_cd |-> Max(24, 120 - level * 6 - (IF boss THEN 30 ELSE 0)),
     shoot_timer |-> timer]

\* Bullet.__init__ (pos, vel, color and trail are not modelled)
Bullet(damage, radius) == [damage |-> damage, radius |-> radius, alive |-> TRUE]

\* AuraPickup.__init__
AuraPickup == [radius |-> PickupRadius]

\* Player.__init__; pos and speed are in tenths of a pixel, as player_speed
\* is in WORLD_CONFIGS
Player(config) ==
    [pos |-> <<(WIDTH \div 2) * 10, (HEIGHT - 80) * 10>>,
     speed |-> config.player_speed,
     lives |-> config.starting_lives, aura |-> 0, radius |-> PlayerRadius,
     shoot_cooldown |-> PlayerShootCooldown, shoot_timer |-> 0]

\* where Player.update keeps the player: 20 pixels inside the screen
RightEdge == (WIDTH - 20) * 10
BottomEdge == (HEIGHT - 20) * 10
Inset == 20 * 10
Clamp(lo, hi, v) == IF v < lo THEN lo ELSE IF v > hi THEN hi ELSE v

\* Player.weapon_level
weapon_level(aura) ==
    IF aura < 100 THEN "I"
    ELSE IF aura < 250 THEN "II"
    ELSE IF aura < 500 THEN "III"
    ELSE "IV"

\* bullet_pattern as it would be with <= in place of < in its tests
bullet_pattern_inclusive(aura) ==
    IF aura <= 100 THEN << <<0, -90>> >>
    ELSE IF aura <= 250 THEN << <<-13, -90>>, <<13, -90>> >>
    ELSE IF aura <= 500 THEN << <<-18, -94>>, <<0, -96>>, <<18, -94>> >>
    ELSE << <<-30, -110>>, <<-14, -118>>, <<0, -122>>, <<14, -118>>, <<30, -110>> >>

\* Player.bullet_pattern: the velocities, in tenths of a pixel per tick
bullet_pattern(aura) ==
    IF aura < 100 THEN << <<0, -90>> >>
    ELSE IF aura < 250 THEN << <<-13, -90>>, <<13, -90>> >>
    ELSE IF aura < 500 THEN << <<-18, -94>>, <<0, -96>>, <<18, -94>> >>
    ELSE << <<-30, -110>>, <<-14, -118>>, <<0, -122>>, <<14, -118>>, <<30, -110>> >>

\* the test as it would be with < in place of <=
CollidesStrict(dist, ra, rb) == dist < ra + rb

\* The circle-circle test of handle_collisions:
\* (a.pos - b.pos).length() <= a.radius + b.radius
Collides(dist, ra, rb) == dist <= ra + rb

(***************************************************************************)
(* State.                                                                  *)
(***************************************************************************)
VARIABLES
    \* fields of Game
    state, state_timer, world_index, world, player, enemies,
    player_bullets, enemy_bullets, pickups, boss_spawned, boss_defeated,
    \* history: the last update or restart that ran, and what it did
    last,
    \* history: why the state last became GAME_OVER ("none", "lives", "victory")
    over_cause,
    \* history: player.aura, player.lives and world_index when WORLD_COMPLETE
    \* was entered,
    \* and the updates run in WORLD_COMPLETE since
    wc_entry, wc_ticks,
    \* history: calls of spawn_boss since the last world reset
    boss_spawns,
    \* PLAYING ticks left to explore
    fuel,
    \* history of a run (SpecRun): the PLAYING ticks run and whether SPACE
    \* was down in the last one; the updates since the enemy's last shot and
    \* since the player's last volley (up to 11), whether SPACE was down in
    \* every PLAYING tick since that volley and whether the game was restarted
    \* since; and, when the last tick fired a shot or a volley that was not the
    \* first, the updates since the one before (shot_gap, volley_gap) with
    \* what held and reset were (volley_held, volley_reset)
    run

vars == <<state, state_timer, world_index, world, player, enemies,
          player_bullets, enemy_bullets, pickups, boss_spawned, boss_defeated,
          last, over_cause, wc_entry, wc_ticks, boss_spawns, fuel, run>>

\* The fields of Game as one record, threaded through the steps of a tick.
\* events is not a field of Game: it is the log handle_collisions fills, one
\* entry per pickup collected, per hit of a player bullet on an enemy and per
\* hit of an enemy bullet on the player, in the order the code registers them.
Game ==
    [state |-> state, state_timer |-> state_timer, world_index |-> world_index,
     world |-> world, player |-> player, enemies |-> enemies,
     player_bullets |-> player_bullets, enemy_bullets |-> enemy_bullets,
     pickups |-> pickups, boss_spawned |-> boss_spawned,
     boss_defeated |-> boss_defeated, events |-> <<>>]

NoEntry == [aura |-> -1, lives |-> -1, world_index |-> -1]

(***************************************************************************)
(* Helpers on sequences.                                                   *)
(***************************************************************************)
RemoveAt(s, k) == [i \in 1..(Len(s) - 1) |-> IF i < k THEN s[i] ELSE s[i + 1]]

BossCount(es) == Cardinality({i \in 1..Len(es) : es[i].boss})
RegularCount(es) == Cardinality({i \in 1..Len(es) : ~es[i].boss})

RECURSIVE SubsetsUpTo(_, _)
\* the subsets of S with at most k elements
SubsetsUpTo(S, k) ==
    IF k = 0 THEN {{}}
    ELSE LET prev == SubsetsUpTo(S, k - 1)
         IN prev \cup {p \cup {x} : p \in prev, x \in S}

(***************************************************************************)
(* Game.reset_world                                                        *)
(***************************************************************************)
\* reset_world as it would be if the lives were carried over like the aura
reset_world_keep_lives(g, keep_aura) ==
    LET prev_aura == IF keep_aura THEN g.player.aura ELSE 0
        w == ConfigAt(g.world_index)
    IN [g EXCEPT !.world = w,
                 !.player = [Player(w) EXCEPT !.aura = prev_aura,
                                              !.lives = IF keep_aura
                                                        THEN g.player.lives
                                                        ELSE @],
                 !.enemies = <<>>,
                 !.player_bullets = <<>>,
                 !.enemy_bullets = <<>>,
                 !.pickups = <<>>,
                 !.boss_spawned = FALSE,
                 !.boss_defeated = FALSE]

\* reset_world as it would be if the aura were never carried over
reset_world_zero_aura(g, keep_aura) ==
    LET w == ConfigAt(g.world_index)
    IN [g EXCEPT !.world = w,
                 !.player = Player(w),
                 !.enemies = <<>>,
                 !.player_bullets = <<>>,
                 !.enemy_bullets = <<>>,
                 !.pickups = <<>>,
                 !.boss_spawned = FALSE,
                 !.boss_defeated = FALSE]

\* reset_world as it would be if keep_aura were ignored and the aura kept
reset_world_keep_aura(g, keep_aura) ==
    LET w == ConfigAt(g.world_index)
    IN [g EXCEPT !.world = w,
                 !.player = [Player(w) EXCEPT !.aura = g.player.aura],
                 !.enemies = <<>>,
                 !.player_bullets = <<>>,
                 !.enemy_bullets = <<>>,
                 !.pickups = <<>>,
                 !.boss_spawned = FALSE,
                 !.boss_defeated = FALSE]

reset_world(g, keep_aura) ==
    LET prev_aura == IF keep_aura THEN g.player.aura ELSE 0
        w == ConfigAt(g.world_index)
    IN [g EXCEPT !.world = w,
                 !.player = [Player(w) EXCEPT !.aura = prev_aura],
                 !.enemies = <<>>,
                 !.player_bullets = <<>>,
                 !.enemy_bullets = <<>>,
                 !.pickups = <<>>,
                 !.boss_spawned = FALSE,
                 !.boss_defeated = FALSE]

(***************************************************************************)
(* The steps of Game.update_playing, in the order of the code.  Each takes *)
(* the fields of Game and returns them as the step leaves them.            *)
(***************************************************************************)
\* Player.update: the movement, for a direction along one axis (its length
\* is 1, normalize leaves it as it is)
PlayerMove(g, direction) ==
    [g EXCEPT !.player.pos =
        <<Clamp(Inset, RightEdge, @[1] + direction[1] * g.player.speed),
          Clamp(Inset, BottomEdge, @[2] + direction[2] * g.player.speed)>>]

\* Player.update: the part that is not movement
PlayerUpdate(g) ==
    [g EXCEPT !.player.shoot_timer = IF @ > 0 THEN @ - 1 ELSE @]

\* Game.spawn_boss as it would be if it left boss_spawned alone
spawn_boss_unflagged(g, timer) ==
    [g EXCEPT !.enemies = Append(@, Enemy(g.world.boss_level, TRUE, timer))]

\* Game.spawn_boss
spawn_boss(g, timer) ==
    [g EXCEPT !.boss_spawned = TRUE,
              !.enemies = Append(@, Enemy(g.world.boss_level, TRUE, timer))]

\* Game.spawn_enemy; lvl is what random.randint(*enemy_level_range) returned
spawn_enemy(g, lvl, timer) ==
    [g EXCEPT !.enemies = Append(@, Enemy(lvl, FALSE, timer))]

\* the pickup trial as it would be with <= in place of <
SpawnPickupInclusive(g, in) ==
    IF Len(g.pickups) <= PickupCap /\ in.pickup_roll
    THEN [g EXCEPT !.pickups = Append(@, AuraPickup)]
    ELSE g

\* handle_spawning, first statement: the pickup trial
SpawnPickup(g, in) ==
    IF Len(g.pickups) < PickupCap /\ in.pickup_roll
    THEN [g EXCEPT !.pickups = Append(@, AuraPickup)]
    ELSE g

\* the boss trigger as it would be with > in place of >=
SpawnBossStrict(g, in) ==
    IF ~g.boss_spawned /\ g.player.aura > g.world.aura_required_for_boss_spawn
    THEN spawn_boss(g, in.boss_timer)
    ELSE g

\* handle_spawning, second statement: the boss trigger
SpawnBoss(g, in) ==
    IF ~g.boss_spawned /\ g.player.aura >= g.world.aura_required_for_boss_spawn
    THEN spawn_boss(g, in.boss_timer)
    ELSE g

\* handle_spawning, third statement: the regular-enemy trial
SpawnRegular(g, in) ==
    IF ~g.boss_spawned /\ in.enemy_roll
    THEN spawn_enemy(g, in.level, in.enemy_timer)
    ELSE g

\* handle_spawning as it would be with the regular-enemy trial placed before
\* the boss trigger
handle_spawning_enemy_first(g, in) ==
    SpawnBoss(SpawnRegular(SpawnPickup(g, in), in), in)

\* Game.handle_spawning; in.pickup_roll and in.enemy_roll say whether
\* random.random() fell below the world's spawn rate
handle_spawning(g, in) == SpawnRegular(SpawnBoss(SpawnPickup(g, in), in), in)

\* Player.try_shoot
try_shoot(p) == p.shoot_timer <= 0

RECURSIVE Volley(_, _)
\* the bullets fire_player makes of a pattern, from its i-th velocity on
Volley(pattern, i) ==
    IF i > Len(pattern) THEN <<>>
    ELSE <<Bullet(5, 4)>> \o Volley(pattern, i + 1)

\* fire_player as it would be without the call of Player.reset_shoot
fire_player_no_reset(g) ==
    [g EXCEPT !.player_bullets = @ \o Volley(bullet_pattern(g.player.aura), 1)]

\* Game.fire_player (with Player.reset_shoot)
fire_player(g) ==
    [g EXCEPT !.player_bullets = @ \o Volley(bullet_pattern(g.player.aura), 1),
              !.player.shoot_timer = g.player.shoot_cooldown]

\* the enemy's timer as it would be if Enemy.update took its tick off the
\* timer after reset_shoot, not before can_shoot
EnemyStepResetFirst(e) ==
    IF e.shoot_timer - 1 <= 0 THEN [e EXCEPT !.shoot_timer = e.shoot_cd - 1]
    ELSE [e EXCEPT !.shoot_timer = @ - 1]

\* Enemy.update (the timer) followed by can_shoot / Enemy.reset_shoot
EnemyStep(e) ==
    LET t == e.shoot_timer - 1
    IN IF t <= 0 THEN [e EXCEPT !.shoot_timer = e.shoot_cd]
       ELSE [e EXCEPT !.shoot_timer = t]

\* Enemy.can_shoot, after this tick's Enemy.update
Fires(e) == e.shoot_timer - 1 <= 0

RECURSIVE EnemyShots(_, _)
\* the bullets fire_enemy appends for the enemies from the i-th on
EnemyShots(es, i) ==
    IF i > Len(es) THEN <<>>
    ELSE (IF Fires(es[i])
          THEN <<Bullet(1, IF es[i].boss THEN 5 ELSE 4)>>
          ELSE <<>>) \o EnemyShots(es, i + 1)

\* the loop over self.enemies in update_playing: update, can_shoot, fire_enemy
EnemiesUpdate(g) ==
    [g EXCEPT !.enemies = [i \in 1..Len(g.enemies) |-> EnemyStep(g.enemies[i])],
              !.enemy_bullets = @ \o EnemyShots(g.enemies, 1)]

\* Bullet.update for both lists; off.player and off.enemy are the bullets
\* whose new position is outside the screen's margin
BulletsUpdate(g, off) ==
    [g EXCEPT !.player_bullets =
                  [i \in 1..Len(@) |->
                      IF i \in off.player THEN [@[i] EXCEPT !.alive = FALSE]
                      ELSE @[i]],
              !.enemy_bullets =
                  [i \in 1..Len(@) |->
                      IF i \in off.enemy THEN [@[i] EXCEPT !.alive = FALSE]
                      ELSE @[i]]]

IsAlive(b) == b.alive

\* update_playing as it would be without the two list comprehensions: the
\* bullets that are no longer alive stay in the lists
FilterAliveKeepDead(g) == g

\* the two list comprehensions [b for b in ... if b.alive]
FilterAlive(g) ==
    [g EXCEPT !.player_bullets = SelectSeq(@, IsAlive),
              !.enemy_bullets = SelectSeq(@, IsAlive)]

(***************************************************************************)
(* handle_collisions.  C is the set of pairs that are at touching distance *)
(* (the sum of the radii) in this tick; every other pair tested is one     *)
(* pixel farther apart.  A pair is <<"pickup", i, 0>> (pickup i and the    *)
(* player), <<"enemy", b, e>> (player bullet b and enemy e) or             *)
(* <<"player", j, 0>> (enemy bullet j and the player), the indices being   *)
(* those of the lists when handle_collisions starts.                       *)
(***************************************************************************)
Distance(C, pair, ra, rb) == IF pair \in C THEN ra + rb ELSE ra + rb + 1

RECURSIVE CollectPickupsFlat(_, _, _, _)
\* the pickup loop as it would be if a pickup were worth the same in every
\* world, the aura_gain_per_pickup of the first
CollectPickupsFlat(g, i, removed, C) ==
    IF i > Len(g.pickups) + removed THEN g
    ELSE LET pickup == g.pickups[i - removed]
             gain == ConfigAt(0).aura_gain_per_pickup
         IN IF Collides(Distance(C, <<"pickup", i, 0>>, pickup.radius, g.player.radius),
                        pickup.radius, g.player.radius)
            THEN CollectPickupsFlat(
                     [g EXCEPT !.player.aura = @ + gain,
                               !.pickups = RemoveAt(@, i - removed),
                               !.events = Append(@,
                                   [kind |-> "pickup", pickup |-> i,
                                    aura_before |-> g.player.aura,
                                    aura_after |-> g.player.aura + gain])],
                     i + 1, removed + 1, C)
            ELSE CollectPickupsFlat(g, i + 1, removed, C)

RECURSIVE CollectPickups(_, _, _, _)
\* for pickup in self.pickups[:], from the i-th of the copy; removed counts
\* the pickups the loop has taken out of self.pickups
CollectPickups(g, i, removed, C) ==
    IF i > Len(g.pickups) + removed THEN g
    ELSE LET pickup == g.pickups[i - removed]
         IN IF Collides(Distance(C, <<"pickup", i, 0>>, pickup.radius, g.player.radius),
                        pickup.radius, g.player.radius)
            THEN CollectPickups(
                     [g EXCEPT !.player.aura = @ + g.world.aura_gain_per_pickup,
                               !.pickups = RemoveAt(@, i - removed),
                               !.events = Append(@,
                                   [kind |-> "pickup", pickup |-> i,
                                    aura_before |-> g.player.aura,
                                    aura_after |-> g.player.aura
                                        + g.world.aura_gain_per_pickup])],
                     i + 1, removed + 1, C)
            ELSE CollectPickups(g, i + 1, removed, C)

\* the first enemy of self.enemies[:] the bullet is in contact with (its
\* index in the list), or 0; ids[k] is the k-th enemy's index at the start
FirstHit(g, ids, b, C) ==
    LET bullet == g.player_bullets[b]
        S == {k \in 1..Len(g.enemies) :
                 Collides(Distance(C, <<"enemy", b, ids[k]>>,
                                   g.enemies[k].radius, bullet.radius),
                          g.enemies[k].radius, bullet.radius)}
    IN IF S = {} THEN 0 ELSE CHOOSE k \in S : \A m \in S : k <= m

\* the log entry of a hit of player bullet b on the k-th enemy of the list,
\* which was the id-th when handle_collisions started; before and after are
\* the fields of Game around the hit, hp is the enemy's hp after it
HitEvent(before, after, b, k, id, hp) ==
    [kind |-> "hit", bullet |-> b, enemy |-> id,
     level |-> before.enemies[k].level, boss |-> before.enemies[k].boss,
     damage |-> before.player_bullets[b].damage,
     alive |-> before.player_bullets[b].alive,
     hp_before |-> before.enemies[k].hp, hp_after |-> hp,
     removed |-> Len(after.enemies) < Len(before.enemies),
     aura_before |-> before.player.aura, aura_after |-> after.player.aura,
     boss_defeated |-> after.boss_defeated]

RECURSIVE HitEnemiesStrict(_, _, _, _)
\* the player-bullet loop as it would be if an enemy were removed only when
\* its hp falls below zero
HitEnemiesStrict(g, ids, b, C) ==
    IF b > Len(g.player_bullets) THEN g
    ELSE LET k == FirstHit(g, ids, b, C)
         IN IF k = 0 THEN HitEnemiesStrict(g, ids, b + 1, C)
            ELSE LET enemy == g.enemies[k]
                     bullet == g.player_bullets[b]
                     hp == enemy.hp - bullet.damage
                     g1 == [g EXCEPT !.enemies[k].hp = hp,
                                     !.player_bullets[b].alive = FALSE]
                     g2 == [g1 EXCEPT !.player.aura =
                                          @ + 10 + enemy.level * 4
                                            + (IF enemy.boss THEN 45 ELSE 0),
                                      !.boss_defeated =
                                          IF enemy.boss THEN TRUE ELSE @,
                                      !.enemies = RemoveAt(@, k)]
                 IN IF hp < 0
                    THEN HitEnemiesStrict(
                             [g2 EXCEPT !.events =
                                 Append(@, HitEvent(g, g2, b, k, ids[k], hp))],
                             RemoveAt(ids, k), b + 1, C)
                    ELSE HitEnemiesStrict(
                             [g1 EXCEPT !.events =
                                 Append(@, HitEvent(g, g1, b, k, ids[k], hp))],
                             ids, b + 1, C)

RECURSIVE HitEnemies(_, _, _, _)
\* for bullet in self.player_bullets[:], from the b-th on
HitEnemies(g, ids, b, C) ==
    IF b > Len(g.player_bullets) THEN g
    ELSE LET k == FirstHit(g, ids, b, C)
         IN IF k = 0 THEN HitEnemies(g, ids, b + 1, C)
            ELSE LET enemy == g.enemies[k]
                     bullet == g.player_bullets[b]
                     hp == enemy.hp - bullet.damage
                     g1 == [g EXCEPT !.enemies[k].hp = hp,
                                     !.player_bullets[b].alive = FALSE]
                     g2 == [g1 EXCEPT !.player.aura =
                                          @ + 10 + enemy.level * 4
                                            + (IF enemy.boss THEN 45 ELSE 0),
                                      !.boss_defeated =
                                          IF enemy.boss THEN TRUE ELSE @,
                                      !.enemies = RemoveAt(@, k)]
                 IN IF hp <= 0
                    THEN HitEnemies(
                             [g2 EXCEPT !.events =
                                 Append(@, HitEvent(g, g2, b, k, ids[k], hp))],
                             RemoveAt(ids, k), b + 1, C)
                    ELSE HitEnemies(
                             [g1 EXCEPT !.events =
                                 Append(@, HitEvent(g, g1, b, k, ids[k], hp))],
                             ids, b + 1, C)

RECURSIVE HitPlayerDiscarding(_, _, _)
\* the enemy-bullet loop as it would be if the hit that takes the last life
\* also emptied the enemy and bullet lists
HitPlayerDiscarding(g, j, C) ==
    IF j > Len(g.enemy_bullets) THEN g
    ELSE LET bullet == g.enemy_bullets[j]
         IN IF Collides(Distance(C, <<"player", j, 0>>, bullet.radius, g.player.radius),
                        bullet.radius, g.player.radius)
            THEN LET lives == g.player.lives - bullet.damage
                 IN IF lives <= 0
                    THEN [g EXCEPT !.player.lives = lives,
                                   !.state = GAME_OVER,
                                   !.enemies = <<>>,
                                   !.player_bullets = <<>>,
                                   !.enemy_bullets = <<>>]
                    ELSE HitPlayerDiscarding(
                             [g EXCEPT !.enemy_bullets[j].alive = FALSE,
                                       !.player.lives = lives],
                             j + 1, C)
            ELSE HitPlayerDiscarding(g, j + 1, C)

RECURSIVE HitPlayer(_, _, _)
\* for bullet in self.enemy_bullets[:], from the j-th on
HitPlayer(g, j, C) ==
    IF j > Len(g.enemy_bullets) THEN g
    ELSE LET bullet == g.enemy_bullets[j]
         IN IF Collides(Distance(C, <<"player", j, 0>>, bullet.radius, g.player.radius),
                        bullet.radius, g.player.radius)
            THEN LET lives == g.player.lives - bullet.damage
                     g1 == [g EXCEPT !.enemy_bullets[j].alive = FALSE,
                                     !.player.lives = lives,
                                     !.events = Append(@,
                                         [kind |-> "player", bullet |-> j,
                                          damage |-> bullet.damage,
                                          alive |-> bullet.alive,
                                          lives_before |-> g.player.lives,
                                          lives_after |-> lives])]
                 IN HitPlayer(IF lives <= 0
                              THEN [g1 EXCEPT !.state = GAME_OVER]
                              ELSE g1,
                              j + 1, C)
            ELSE HitPlayer(g, j + 1, C)

\* the enemies' indices when handle_collisions starts
EnemyIds(g) == [k \in 1..Len(g.enemies) |-> k]

\* Game.handle_collisions
handle_collisions(g, C) ==
    HitPlayer(HitEnemies(CollectPickups(g, 1, 0, C),
                         EnemyIds(g), 1, C),
              1, C)

\* the end of update_playing as it would be without the test of self.state
CheckWorldCompleteAnyState(g) ==
    IF g.boss_spawned /\ g.boss_defeated
    THEN [g EXCEPT !.state = WORLD_COMPLETE, !.state_timer = FPS * 2]
    ELSE g

\* the end of update_playing
CheckWorldComplete(g) ==
    IF g.boss_spawned /\ g.boss_defeated /\ g.state = PLAYING
    THEN [g EXCEPT !.state = WORLD_COMPLETE, !.state_timer = FPS * 2]
    ELSE g

\* the WORLD_COMPLETE branch as it would be with < in place of <=
update_world_complete_late(g) ==
    LET g1 == [g EXCEPT !.state_timer = @ - 1]
    IN IF g1.state_timer < 0
       THEN LET g2 == [g1 EXCEPT !.world_index = @ + 1]
            IN IF g2.world_index >= NumWorlds
               THEN [g2 EXCEPT !.state = GAME_OVER]
               ELSE reset_world([g2 EXCEPT !.state = PLAYING], TRUE)
       ELSE g1

\* the WORLD_COMPLETE branch as it would be if world_index were advanced
\* only when there is a next world
update_world_complete_keep_index(g) ==
    LET g1 == [g EXCEPT !.state_timer = @ - 1]
    IN IF g1.state_timer <= 0
       THEN IF g1.world_index + 1 >= NumWorlds
            THEN [g1 EXCEPT !.state = GAME_OVER]
            ELSE reset_world([g1 EXCEPT !.world_index = @ + 1,
                                        !.state = PLAYING], TRUE)
       ELSE g1

\* the WORLD_COMPLETE branch as it would be if reset_world ran before
\* world_index is advanced
update_world_complete_reset_first(g) ==
    LET g1 == [g EXCEPT !.state_timer = @ - 1]
    IN IF g1.state_timer <= 0
       THEN IF g1.world_index + 1 >= NumWorlds
            THEN [g1 EXCEPT !.world_index = @ + 1, !.state = GAME_OVER]
            ELSE [reset_world([g1 EXCEPT !.state = PLAYING], TRUE)
                     EXCEPT !.world_index = @ + 1]
       ELSE g1

\* the WORLD_COMPLETE branch as it would be if the bullets and pickups were
\* cleared while the countdown runs
update_world_complete_clearing(g) ==
    LET g1 == [g EXCEPT !.state_timer = @ - 1,
                        !.player_bullets = <<>>,
                        !.enemy_bullets = <<>>,
                        !.pickups = <<>>]
    IN IF g1.state_timer <= 0
       THEN LET g2 == [g1 EXCEPT !.world_index = @ + 1]
            IN IF g2.world_index >= NumWorlds
               THEN [g2 EXCEPT !.state = GAME_OVER]
               ELSE reset_world([g2 EXCEPT !.state = PLAYING], TRUE)
       ELSE g1

\* the WORLD_COMPLETE branch of Game.update
update_world_complete(g) ==
    LET g1 == [g EXCEPT !.state_timer = @ - 1]
    IN IF g1.state_timer <= 0
       THEN LET g2 == [g1 EXCEPT !.world_index = @ + 1]
            IN IF g2.world_index >= NumWorlds
               THEN [g2 EXCEPT !.state = GAME_OVER]
               ELSE reset_world([g2 EXCEPT !.state = PLAYING], TRUE)
       ELSE g1

\* the KEYDOWN branch as it would be without the test of self.state
keydown_any_state(g, key) ==
    IF key = "r"
    THEN reset_world([g EXCEPT !.world_index = 0, !.state = PLAYING], FALSE)
    ELSE g

\* the KEYDOWN branch of Game.run for a key other than ESC
keydown(g, key) ==
    IF g.state = GAME_OVER /\ key = "r"
    THEN reset_world([g EXCEPT !.world_index = 0, !.state = PLAYING], FALSE)
    ELSE g

(***************************************************************************)
(* Inputs of a PLAYING tick.                                               *)
(***************************************************************************)
\* the values random.randint(20, shoot_cd) is explored with: both ends
ShootTimers(cd) == {ShootTimerMin, cd}

\* The regular-enemy trial of handle_spawning: no spawn, or a spawn with the
\* level and the shoot timer drawn, explored with the lowest level and the
\* shortest timer, and with the highest level and the longest timer.  With
\* boss_spawned set when the tick starts the code does not call
\* random.random() (the "and" short-circuits) and there is no trial.
EnemyRolls(g) ==
    {[roll |-> FALSE, level |-> 0, timer |-> 0]}
    \cup (IF ~g.boss_spawned /\ RegularCount(g.enemies) < MaxRegular
          THEN {[roll |-> TRUE, level |-> g.world.enemy_level_range[1],
                 timer |-> ShootTimerMin],
                [roll |-> TRUE, level |-> g.world.enemy_level_range[2],
                 timer |-> Enemy(g.world.enemy_level_range[2], FALSE, 0).shoot_cd]}
          ELSE {})

\* the shoot timer drawn for a boss spawned in this tick
BossTimers(g) ==
    IF ~g.boss_spawned /\ g.player.aura >= g.world.aura_required_for_boss_spawn
    THEN ShootTimers(Enemy(g.world.boss_level, TRUE, 0).shoot_cd)
    ELSE {0}

\* keys[K_SPACE]: up or down.  The key is read only together with
\* Player.try_shoot, so that with the shoot timer still running after
\* Player.update both values give the same tick, explored once.
SpaceKeys(g) == IF try_shoot(PlayerUpdate(g).player) THEN BOOLEAN ELSE {FALSE}

\* The direction Player.update makes of the movement keys: none down, or
\* K_d / K_RIGHT.  At the right edge both give the same tick, explored once.
MoveKeys(g) ==
    IF g.player.pos[1] = RightEdge THEN {<<0, 0>>} ELSE {<<0, 0>>, <<1, 0>>}

\* pickup_roll, enemy_roll: random.random() < rate; space: keys[K_SPACE];
\* move: the direction of the movement keys
SpawnInputs(g) ==
    {[pickup_roll |-> p, enemy_roll |-> e.roll, level |-> e.level,
      enemy_timer |-> e.timer, boss_timer |-> bt, space |-> sp, move |-> mv] :
        p \in BOOLEAN, e \in EnemyRolls(g), bt \in BossTimers(g),
        sp \in SpaceKeys(g), mv \in MoveKeys(g)}

\* the indices of the first k live bullets of a list
FirstAlive(bs, k) ==
    LET A == {i \in 1..Len(bs) : bs[i].alive}
    IN {i \in A : Cardinality({j \in A : j < i}) < k}

\* The bullets that leave the screen in this tick, among the live bullets
\* fired in an earlier tick (a bullet is created on the screen: the player's
\* at most 12.2 pixels from a margin of 20 after its first update, an enemy's
\* heading for the player).  The player's
\* bullets are all alike in the model, so the ones that leave are taken to be
\* the oldest; any other choice differs only in the order of the list.
OffscreenChoices(g) ==
    LET E == {j \in 1..Len(g.enemy_bullets) : g.enemy_bullets[j].alive}
    IN {[player |-> FirstAlive(g.player_bullets, MaxOffscreen - Cardinality(S)),
         enemy |-> S] : S \in SubsetsUpTo(E, MaxOffscreen)}
       \cup {[player |-> FirstAlive(g.player_bullets, k), enemy |-> {}] :
                k \in 0..MaxOffscreen}

\* The pairs handle_collisions tests that may be at touching distance.  The
\* pickups are all alike in the model, and so are the player's bullets once
\* the dead ones are filtered out: the contacts are taken among the first
\* MaxContacts of each, any other choice being a permutation of one of these.
Pairs(g) ==
    {<<"pickup", i, 0>> : i \in 1..Len(g.pickups) \cap 1..MaxContacts}
    \cup {<<"enemy", b, e>> : b \in 1..Len(g.player_bullets) \cap 1..MaxContacts,
                              e \in 1..Len(g.enemies)}
    \cup {<<"player", j, 0>> : j \in 1..Len(g.enemy_bullets)}

\* For the same reason the pickups in contact are taken to be the first of
\* the list, and the player's bullets in contact with an enemy the first of
\* theirs.
Leading(S) == S = 1..Cardinality(S)

Contacts(g) ==
    {C \in SubsetsUpTo(Pairs(g), MaxContacts) :
        /\ Leading({p[2] : p \in {q \in C : q[1] = "pickup"}})
        /\ Leading({p[2] : p \in {q \in C : q[1] = "enemy"}})}

(***************************************************************************)
(* Game.update_playing.                                                    *)
(***************************************************************************)
\* if keys[pygame.K_SPACE] and self.player.try_shoot(): self.fire_player()
Shoot(g, in) == IF in.space /\ try_shoot(g.player) THEN fire_player(g) ELSE g

\* up to the filtering of dead bullets
BeforeCollisions(g, in, off) ==
    FilterAlive(BulletsUpdate(
        EnemiesUpdate(Shoot(handle_spawning(
            PlayerUpdate(PlayerMove(g, in.move)), in), in)), off))

\* handle_collisions and the test that ends update_playing
AfterCollisions(g, C) == CheckWorldComplete(handle_collisions(g, C))

(***************************************************************************)
(* Starting states.  Besides the state Game.__init__ builds, the           *)
(* exploration starts from states the game is in later in a run, the       *)
(* player having moved to the right edge of the screen:                    *)
(*  - InitMidWorld: world 1 with the aura one pickup short of the boss     *)
(*    threshold (208 = 15 pickups of 12 and two level-1 kills of 14), full *)
(*    lives, no bullet in flight, and either nothing else on screen or a   *)
(*    level-1 enemy one hit from death and about to shoot;                 *)
(*  - InitFight: late in the boss fight of the first or the last world,    *)
(*    the boss one hit from death and about to shoot, with either full     *)
(*    lives and no bullet in flight, or one life left and a boss bullet in *)
(*    flight.  The aura is the one of the run that, in every world,        *)
(*    collects pickups until the boss spawns and then kills the boss       *)
(*    (ChainStart, SpawnAura);                                             *)
(*  - InitCrowded: the first world before anything was collected or        *)
(*    killed, with one pickup less on the screen than handle_spawning      *)
(*    allows (a pickup stays until the player collects it).                *)
(***************************************************************************)
BossReward(cfg) == 10 + cfg.boss_level * 4 + 45

RECURSIVE ChainStart(_), SpawnAura(_)
\* the aura world w starts with in that run
ChainStart(w) ==
    IF w = 0 THEN 0 ELSE SpawnAura(w - 1) + BossReward(ConfigAt(w - 1))

\* the aura at which the boss of world w spawns in that run
SpawnAura(w) ==
    LET cfg == ConfigAt(w)
        gain == cfg.aura_gain_per_pickup
        need == cfg.aura_required_for_boss_spawn - ChainStart(w)
        k == IF need <= 0 THEN 0 ELSE (need + gain - 1) \div gain
    IN ChainStart(w) + k * gain

\* the worlds of InitFight
FightWorlds == {0, NumWorlds - 1}

\* history: an update or restart run in state from, before anything is known
\* of what it did.  The fields named _before are values when it started.
Last(op, from) ==
    [op |-> op, from |-> from, aura_before |-> 0, pickups_before |-> 0,
     enemies_before |-> 0, boss_defeated_before |-> FALSE,
     pickup_roll |-> FALSE, enemy_roll |-> FALSE,
     spawned_pickup |-> 0, spawned_boss |-> 0, spawned_enemy |-> 0,
     fired |-> 0, enemy_fired |-> 0, contacts |-> {}, events |-> <<>>]

NoLast == Last("init", PLAYING)

\* the hp of an enemy one hit of a player bullet (damage 5) from death
LastHp(hp) == ((hp - 1) % 5) + 1

\* Game.__init__
InitGame ==
    /\ world_index = 0
    /\ state = PLAYING
    /\ state_timer = 0
    /\ world = ConfigAt(0)
    /\ player = Player(ConfigAt(0))
    /\ enemies = <<>>
    /\ player_bullets = <<>>
    /\ enemy_bullets = <<>>
    /\ pickups = <<>>
    /\ boss_spawned = FALSE
    /\ boss_defeated = FALSE
    /\ boss_spawns = 0

InitMidWorld(with_enemy) ==
    /\ world_index = 0
    /\ state = PLAYING
    /\ state_timer = 0
    /\ world = ConfigAt(0)
    /\ player = [Player(ConfigAt(0)) EXCEPT
                    !.pos[1] = RightEdge,
                    !.aura = ConfigAt(0).aura_required_for_boss_spawn
                             - ConfigAt(0).aura_gain_per_pickup]
    /\ enemies = IF with_enemy
                 THEN << [Enemy(1, FALSE, 1) EXCEPT !.hp = LastHp(@)] >>
                 ELSE <<>>
    /\ player_bullets = <<>>
    /\ enemy_bullets = <<>>
    /\ pickups = <<>>
    /\ boss_spawned = FALSE
    /\ boss_defeated = FALSE
    /\ boss_spawns = 0

InitFight(w, last_life) ==
    /\ world_index = w
    /\ state = PLAYING
    /\ state_timer = 0
    /\ world = ConfigAt(w)
    /\ player = [Player(ConfigAt(w)) EXCEPT
                    !.pos[1] = RightEdge,
                    !.aura = SpawnAura(w),
                    !.lives = IF last_life THEN 1 ELSE @]
    /\ enemies = << [Enemy(ConfigAt(w).boss_level, TRUE, 1) EXCEPT !.hp = LastHp(@)] >>
    /\ player_bullets = <<>>
    /\ enemy_bullets = IF last_life THEN << Bullet(1, 5) >> ELSE <<>>
    /\ pickups = <<>>
    /\ boss_spawned = TRUE
    /\ boss_defeated = FALSE
    /\ boss_spawns = 1

InitCrowded ==
    /\ world_index = 0
    /\ state = PLAYING
    /\ state_timer = 0
    /\ world = ConfigAt(0)
    /\ player = [Player(ConfigAt(0)) EXCEPT !.pos[1] = RightEdge]
    /\ enemies = <<>>
    /\ player_bullets = <<>>
    /\ enemy_bullets = <<>>
    /\ pickups = [i \in 1..(PickupCap - 1) |-> AuraPickup]
    /\ boss_spawned = FALSE
    /\ boss_defeated = FALSE
    /\ boss_spawns = 0

\* history: no tick run, no shot and no volley yet (-1: none yet)
NoRun ==
    [tick |-> 0, space |-> FALSE,
     since_shot |-> -1, shot_gap |-> 0,
     since_volley |-> -1, held |-> TRUE, reset |-> FALSE,
     volley_gap |-> 0, volley_held |-> FALSE, volley_reset |-> FALSE]

Init ==
    /\ \/ InitGame
       \/ InitCrowded
       \/ \E with_enemy \in BOOLEAN : InitMidWorld(with_enemy)
       \/ \E w \in FightWorlds, last_life \in BOOLEAN : InitFight(w, last_life)
    /\ last = NoLast
    /\ over_cause = "none"
    /\ wc_entry = NoEntry
    /\ wc_ticks = 0
    /\ fuel = MaxTicks
    /\ run = NoRun

(***************************************************************************)
(* Actions: one per branch of Game.update, one for the KEYDOWN handler.    *)
(***************************************************************************)
SetGame(g) ==
    /\ state' = g.state
    /\ state_timer' = g.state_timer
    /\ world_index' = g.world_index
    /\ world' = g.world
    /\ player' = g.player
    /\ enemies' = g.enemies
    /\ player_bullets' = g.player_bullets
    /\ enemy_bullets' = g.enemy_bullets
    /\ pickups' = g.pickups
    /\ boss_spawned' = g.boss_spawned
    /\ boss_defeated' = g.boss_defeated

\* Game.update in PLAYING: update_playing, with the tick's inputs
UpdatePlaying ==
    /\ state = PLAYING
    /\ fuel > 0
    /\ \E in \in SpawnInputs(Game), off \in OffscreenChoices(Game) :
       \E before \in {PlayerUpdate(PlayerMove(Game, in.move))} :
       \E spawned \in {handle_spawning(before, in)} :
       \E shot \in {Shoot(spawned, in)} :
       \E moved \in {EnemiesUpdate(shot)} :
       \E bc \in {FilterAlive(BulletsUpdate(moved, off))} :
       \E C \in Contacts(bc) :
       \E g \in {AfterCollisions(bc, C)} :
          /\ SetGame(g)
          /\ last' = [Last("update", PLAYING) EXCEPT
                        !.aura_before = player.aura,
                        !.pickups_before = Len(pickups),
                        !.enemies_before = Len(enemies),
                        !.boss_defeated_before = boss_defeated,
                        !.pickup_roll = in.pickup_roll,
                        !.enemy_roll = in.enemy_roll,
                        !.spawned_pickup = Len(spawned.pickups) - Len(before.pickups),
                        !.spawned_boss = BossCount(spawned.enemies)
                                         - BossCount(before.enemies),
                        !.spawned_enemy = RegularCount(spawned.enemies)
                                          - RegularCount(before.enemies),
                        !.fired = Len(shot.player_bullets)
                                  - Len(spawned.player_bullets),
                        !.enemy_fired = Len(moved.enemy_bullets)
                                        - Len(shot.enemy_bullets),
                        !.contacts = C,
                        !.events = g.events]
          /\ boss_spawns' = boss_spawns + BossCount(spawned.enemies)
                                        - BossCount(before.enemies)
          /\ over_cause' = IF g.state = GAME_OVER THEN "lives" ELSE over_cause
          /\ wc_entry' = IF g.state = WORLD_COMPLETE
                         THEN [aura |-> g.player.aura,
                               lives |-> g.player.lives,
                               world_index |-> g.world_index]
                         ELSE wc_entry
          /\ wc_ticks' = IF g.state = WORLD_COMPLETE THEN 0 ELSE wc_ticks
          /\ fuel' = fuel - 1
          /\ UNCHANGED run

\* Game.update in WORLD_COMPLETE
UpdateWorldComplete ==
    /\ state = WORLD_COMPLETE
    /\ \E g \in {update_world_complete(Game)} :
          /\ SetGame(g)
          /\ last' = Last("update", WORLD_COMPLETE)
          /\ boss_spawns' = IF g.state = PLAYING THEN 0 ELSE boss_spawns
          /\ over_cause' = IF g.state = GAME_OVER THEN "victory" ELSE over_cause
          /\ wc_ticks' = wc_ticks + 1
          /\ UNCHANGED <<wc_entry, fuel, run>>

\* Game.update in GAME_OVER: neither branch is taken
UpdateGameOver ==
    /\ state = GAME_OVER
    /\ last' = Last("update", GAME_OVER)
    /\ UNCHANGED <<state, state_timer, world_index, world, player, enemies,
                   player_bullets, enemy_bullets, pickups, boss_spawned,
                   boss_defeated, over_cause, wc_entry, wc_ticks, boss_spawns,
                   fuel, run>>

\* the keys of KEYDOWN events: K_r and any other key but K_ESCAPE
Keys == {"r", "other"}

\* a KEYDOWN event in Game.run.  The history records a restart when the
\* handler changed a field of the game; a key the handler ignores leaves the
\* whole state as it is.
KeyDown ==
    \E key \in Keys :
    \E g \in {keydown(Game, key)} :
        LET restarted == g # Game
        IN /\ SetGame(g)
           /\ last' = IF restarted THEN Last("restart", state) ELSE last
           /\ boss_spawns' = IF restarted THEN 0 ELSE boss_spawns
           /\ wc_entry' = IF restarted THEN NoEntry ELSE wc_entry
           /\ wc_ticks' = IF restarted THEN 0 ELSE wc_ticks
           /\ UNCHANGED <<over_cause, fuel, run>>

Next == UpdatePlaying \/ UpdateWorldComplete \/ UpdateGameOver \/ KeyDown

Spec == Init /\ [][Next]_vars

(***************************************************************************)
(* Long runs.  The shots of an enemy are up to 114 ticks apart and the     *)
(* volleys of the player 10: SpecRun follows update_playing over RunTicks  *)
(* ticks in which nothing is spawned, SPACE being up or down in each, and  *)
(* nothing touches but, in the tick it is fired, the enemy's bullet and    *)
(* the player.  The player is down to the last life: that hit ends the     *)
(* game, and K_r starts a new one.  A run starts in the first world with   *)
(* one enemy about to shoot and the aura next to a threshold of            *)
(* Player.weapon_level: below the boss threshold of 220 with a level-1     *)
(* enemy, from 220 on with the boss.  Pickups are worth 12 there and kills *)
(* 14 (level 1) or 18 (level 2), so the aura is even, and                  *)
(*    98 = 7 * 12 + 14             100 = 6 * 12 + 2 * 14                   *)
(*   248 = 15 * 12 + 14 + 3 * 18   250 = 15 * 12 + 5 * 14                  *)
(*   498 = 40 * 12 + 18            500 = 39 * 12 + 14 + 18                 *)
(***************************************************************************)
RunAuras == {98, 100, 248, 250, 498, 500}

RunStart(aura) ==
    LET boss == aura >= ConfigAt(0).aura_required_for_boss_spawn
    IN /\ world_index = 0
       /\ state = PLAYING
       /\ state_timer = 0
       /\ world = ConfigAt(0)
       /\ player = [Player(ConfigAt(0)) EXCEPT
                       !.pos[1] = RightEdge, !.aura = aura, !.lives = 1]
       /\ enemies = IF boss THEN << Enemy(ConfigAt(0).boss_level, TRUE, 1) >>
                    ELSE << Enemy(1, FALSE, 1) >>
       /\ player_bullets = <<>>
       /\ enemy_bullets = <<>>
       /\ pickups = <<>>
       /\ boss_spawned = boss
       /\ boss_defeated = FALSE
       /\ boss_spawns = IF boss THEN 1 ELSE 0

InitRun ==
    /\ \E aura \in RunAuras : RunStart(aura)
    /\ last = NoLast
    /\ over_cause = "none"
    /\ wc_entry = NoEntry
    /\ wc_ticks = 0
    /\ fuel = 0
    /\ run = NoRun

\* the inputs of a tick in which neither draw falls below its rate and no
\* movement key is down
Quiet(space) ==
    [pickup_roll |-> FALSE, enemy_roll |-> FALSE, level |-> 0,
     enemy_timer |-> 0, boss_timer |-> 0, space |-> space, move |-> <<0, 0>>]

\* The bullets that leave the screen in a tick of the run: the ones the
\* player fired earlier when a volley is fired, the ones the enemy fired
\* earlier when it shoots again.  before is the game when the tick starts,
\* moved the game after the loop over self.enemies.
RunOffscreen(before, moved) ==
    [player |-> IF Len(moved.player_bullets) > Len(before.player_bullets)
                THEN 1..Len(before.player_bullets) ELSE {},
     enemy |-> IF Len(moved.enemy_bullets) > Len(before.enemy_bullets)
               THEN 1..Len(before.enemy_bullets) ELSE {}]

\* the contacts of a tick of the run: none, or the bullet the enemy fired in
\* this tick (the last of the list) at touching distance from the player
RunContacts(g, enemy_fired) ==
    {{}} \cup (IF enemy_fired > 0
               THEN {{<<"player", Len(g.enemy_bullets), 0>>}}
               ELSE {})

\* the next value of a count of updates kept up to cap
Count(n, cap) == IF n < 0 THEN n ELSE IF n >= cap THEN cap ELSE n + 1

\* Game.update in PLAYING: update_playing with the inputs of a run
RunTick ==
    /\ state = PLAYING
    /\ run.tick < RunTicks
    /\ \E space \in BOOLEAN :
       \E before \in {PlayerUpdate(PlayerMove(Game, Quiet(space).move))} :
       \E spawned \in {handle_spawning(before, Quiet(space))} :
       \E shot \in {Shoot(spawned, Quiet(space))} :
       \E moved \in {EnemiesUpdate(shot)} :
       \E bc \in {FilterAlive(BulletsUpdate(moved, RunOffscreen(Game, moved)))} :
       \E fired \in {Len(shot.player_bullets) - Len(spawned.player_bullets)} :
       \E enemy_fired \in {Len(moved.enemy_bullets) - Len(shot.enemy_bullets)} :
       \E C \in RunContacts(bc, enemy_fired) :
       \E g \in {AfterCollisions(bc, C)} :
          LET restarted == run.reset \/ last.op = "restart"
              again == fired > 0 /\ run.since_volley >= 0
          IN /\ SetGame(g)
             /\ last' = [Last("update", PLAYING) EXCEPT
                           !.aura_before = player.aura,
                           !.pickups_before = Len(pickups),
                           !.enemies_before = Len(enemies),
                           !.boss_defeated_before = boss_defeated,
                           !.fired = fired,
                           !.enemy_fired = enemy_fired,
                           !.contacts = C,
                           !.events = g.events]
             /\ over_cause' = IF g.state = GAME_OVER THEN "lives" ELSE over_cause
             /\ run' = [tick |-> run.tick + 1,
                        space |-> space,
                        since_shot |-> IF enemy_fired > 0 THEN 0
                                       ELSE IF Len(enemies) = 0 THEN -1
                                       ELSE Count(run.since_shot, RunTicks),
                        shot_gap |-> IF enemy_fired > 0 /\ run.since_shot >= 0
                                     THEN run.since_shot + 1
                                     ELSE 0,
                        since_volley |-> IF fired > 0 THEN 0
                                         ELSE Count(run.since_volley,
                                                    PlayerShootCooldown + 1),
                        held |-> IF fired > 0 THEN TRUE ELSE run.held /\ space,
                        reset |-> IF fired > 0 THEN FALSE ELSE restarted,
                        volley_gap |-> IF again
                                       THEN Count(run.since_volley,
                                                  PlayerShootCooldown + 1)
                                       ELSE 0,
                        volley_held |-> again /\ run.held /\ space,
                        volley_reset |-> again /\ restarted]
             /\ UNCHANGED <<boss_spawns, wc_entry, wc_ticks, fuel>>

\* Game.update in GAME_OVER: neither branch is taken
RunGameOver ==
    /\ state = GAME_OVER
    /\ last' = Last("update", GAME_OVER)
    /\ run' = [run EXCEPT !.since_volley = Count(@, PlayerShootCooldown + 1),
                          !.shot_gap = 0,
                          !.volley_gap = 0,
                          !.volley_held = FALSE,
                          !.volley_reset = FALSE]
    /\ UNCHANGED <<state, state_timer, world_index, world, player, enemies,
                   player_bullets, enemy_bullets, pickups, boss_spawned,
                   boss_defeated, over_cause, wc_entry, wc_ticks, boss_spawns,
                   fuel>>

NextRun == RunTick \/ RunGameOver \/ KeyDown

SpecRun == InitRun /\ [][NextRun]_vars

(***************************************************************************)
(* Properties.                                                             *)
(***************************************************************************)
\* a step of UpdatePlaying (a key the handler ignores leaves fuel as it is)
PlayingTick == state = PLAYING /\ fuel' # fuel

LegalTransitions ==
    { <<PLAYING, WORLD_COMPLETE>>, <<WORLD_COMPLETE, PLAYING>>,
      <<WORLD_COMPLETE, GAME_OVER>>, <<PLAYING, GAME_OVER>>,
      <<GAME_OVER, PLAYING>> }

C1_Step ==
    /\ state' # state => <<state, state'>> \in LegalTransitions
    /\ state = GAME_OVER /\ state' # GAME_OVER => last'.op = "restart"
    /\ last'.op = "restart" => state = GAME_OVER /\ state' = PLAYING
    /\ \A g \in {Game, Game'} :
           g.state # GAME_OVER => \A key \in Keys : keydown(g, key) = g

\* C1: every step that changes the game state is one of PLAYING ->
\* WORLD_COMPLETE, WORLD_COMPLETE -> PLAYING, WORLD_COMPLETE -> GAME_OVER,
\* PLAYING -> GAME_OVER, GAME_OVER -> PLAYING; the step that leaves GAME_OVER
\* is the restart key, the restart key takes effect only in GAME_OVER, and in
\* every state other than GAME_OVER the KEYDOWN handler returns the game
\* exactly as it received it, whatever the key.
C1_LegalTransitions == [][C1_Step]_vars

\* GAME_OVER has been left by the restart key, from a loss
C1_Witness ==
    /\ last.op = "restart"
    /\ last.from = GAME_OVER
    /\ state = PLAYING
    /\ over_cause = "lives"

C2_Step ==
    /\ PlayingTick =>
           last'.spawned_boss =
               (IF ~boss_spawned
                   /\ player.aura >= world.aura_required_for_boss_spawn
                THEN 1 ELSE 0)
    /\ boss_spawns' \in {0, 1}
    /\ boss_spawned' <=> boss_spawns' = 1
    /\ boss_spawned /\ ~boss_spawned' =>
           state = WORLD_COMPLETE \/ last'.op = "restart"
    /\ state' = WORLD_COMPLETE => boss_spawns' = 1
    /\ BossCount(enemies') <= boss_spawns'
    /\ \A i \in 1..Len(enemies') :
           enemies'[i].boss => enemies'[i].level = world'.boss_level

\* C2: a PLAYING tick calls spawn_boss exactly when the tick starts with
\* boss_spawned false and player.aura >= aura_required_for_boss_spawn (the
\* spawning step reads both before anything in the tick changes them); the
\* calls since the last world reset number 0 or 1, and 1 exactly when
\* boss_spawned is set; boss_spawned is cleared only by a world reset (the end
\* of WORLD_COMPLETE, the restart); a world that is completed has had its one
\* call; every boss in the enemy list has the level boss_level of the active
\* world.
C2_BossSpawnedOnce == [][C2_Step]_vars

\* the boss has just been spawned with the aura exactly at the threshold
C2_Witness ==
    /\ last.spawned_boss = 1
    /\ boss_spawns = 1
    /\ BossCount(enemies) = 1
    /\ player.aura = world.aura_required_for_boss_spawn

C3_Step ==
    PlayingTick /\ boss_spawned' =>
        /\ last'.spawned_enemy = 0
        /\ RegularCount(enemies') <= RegularCount(enemies)

\* C3: a PLAYING tick that ends with boss_spawned set (set before the tick or
\* by the tick's own boss trigger) has added no non-boss enemy: spawn_enemy
\* was not called and the number of non-boss enemies has not grown.
C3_NoRegularSpawnWithBoss == [][C3_Step]_vars

\* the boss was spawned in a tick whose regular-enemy trial succeeded
C3_Witness ==
    /\ last.op = "update"
    /\ last.enemy_roll
    /\ last.spawned_boss = 1
    /\ last.spawned_enemy = 0
    /\ boss_spawned

C4_Step ==
    \/ player'.aura >= player.aura
    \/ state = GAME_OVER /\ last'.op = "restart" /\ player'.aura = 0

\* C4: no step lowers player.aura except the restart key pressed in
\* GAME_OVER, which sets it to 0; this includes the step from WORLD_COMPLETE
\* to PLAYING that builds the next world's player.
C4_AuraNeverDecreases == [][C4_Step]_vars

\* the next world has started with the aura the previous one ended with
C4_Witness ==
    /\ last.op = "update"
    /\ last.from = WORLD_COMPLETE
    /\ state = PLAYING
    /\ player.aura > 0
    /\ player.aura = wc_entry.aura

C5_Step ==
    /\ PlayingTick /\ boss_defeated' /\ player'.lives > 0 =>
           state' = WORLD_COMPLETE /\ state_timer' = 120 /\ wc_ticks' = 0
    /\ state' = WORLD_COMPLETE =>
           /\ wc_ticks' \in 0..119
           /\ state_timer' = 120 - wc_ticks'
           /\ player'.aura = wc_entry'.aura
           /\ world_index' = wc_entry'.world_index
    /\ state = WORLD_COMPLETE /\ state' # WORLD_COMPLETE => wc_ticks' = 120
    /\ state = WORLD_COMPLETE /\ state' # WORLD_COMPLETE
          /\ world_index < NumWorlds - 1 =>
           /\ state' = PLAYING
           /\ world_index' = world_index + 1
           /\ world' = WORLD_CONFIGS[world_index' + 1]
           /\ player'.aura = wc_entry.aura

\* C5: a PLAYING tick that ends with the boss defeated and lives > 0 ends in
\* WORLD_COMPLETE with state_timer = 120 (= FPS * 2); while the state is
\* WORLD_COMPLETE, state_timer is 120 minus the number of updates run since,
\* and aura and world_index are those of the entry; the state is left by the
\* 120th of these updates and by no earlier one, and in a world that is not
\* the last that update gives PLAYING with world_index one higher, the table's
\* entry at the new index as active configuration and the aura of the entry.
C5_WorldCompleteCountdown == [][C5_Step]_vars

\* the second world has started after the countdown of the first
C5_Witness ==
    /\ state = PLAYING
    /\ last.from = WORLD_COMPLETE
    /\ wc_ticks = 120
    /\ wc_entry.world_index = 0
    /\ world_index = 1
    /\ world = WORLD_CONFIGS[2]
    /\ player.aura = wc_entry.aura

\* C6: in GAME_OVER, world_index >= len(WORLD_CONFIGS) exactly when the state
\* was reached from WORLD_COMPLETE (a victory) and not by losing the last
\* life, and then world_index = len(WORLD_CONFIGS); once the countdown that
\* follows the last world's boss has run out, the state is GAME_OVER with
\* world_index = len(WORLD_CONFIGS).
C6_VictoryDistinguishable ==
    /\ state = GAME_OVER =>
           ((world_index >= Len(WORLD_CONFIGS)) <=> over_cause = "victory")
    /\ state = GAME_OVER /\ over_cause = "victory" =>
           world_index = Len(WORLD_CONFIGS)
    /\ wc_entry.world_index = Len(WORLD_CONFIGS) - 1 /\ state # WORLD_COMPLETE =>
           /\ state = GAME_OVER
           /\ over_cause = "victory"
           /\ world_index = Len(WORLD_CONFIGS)

\* GAME_OVER by clearing the last world
C6_Witness ==
    /\ state = GAME_OVER
    /\ over_cause = "victory"
    /\ wc_entry.world_index = Len(WORLD_CONFIGS) - 1
    /\ world_index = Len(WORLD_CONFIGS)

\* C7: whenever player.lives <= 0 the state is GAME_OVER, reached by the
\* PLAYING tick that took the last life: no tick ends with lives <= 0 in
\* PLAYING or WORLD_COMPLETE, whatever the world and the boss flags, also
\* when the same tick killed the boss.
C7_DepletedLivesIsGameOver ==
    player.lives <= 0 => state = GAME_OVER /\ over_cause = "lives"

\* the boss was killed in the tick that took the last life
C7_Witness ==
    /\ player.lives <= 0
    /\ boss_spawned
    /\ boss_defeated
    /\ BossCount(enemies) = 0
    /\ state = GAME_OVER

\* C8, as the claim states it: in a GAME_OVER reached by losing the last life
\* the enemy, player-bullet and enemy-bullet lists are empty.
C8_EmptyOnLoss ==
    state = GAME_OVER /\ over_cause = "lives" =>
        enemies = <<>> /\ player_bullets = <<>> /\ enemy_bullets = <<>>

C8_Step ==
    /\ PlayingTick /\ state' = GAME_OVER =>
           /\ \E j \in 1..Len(enemy_bullets') : ~enemy_bullets'[j].alive
           /\ BossCount(enemies) = 1 /\ ~boss_defeated' =>
                  BossCount(enemies') = 1
    /\ state = GAME_OVER /\ state' = GAME_OVER =>
           UNCHANGED <<enemies, player_bullets, enemy_bullets>>
    /\ state = GAME_OVER /\ state' # GAME_OVER =>
           enemies' = <<>> /\ player_bullets' = <<>> /\ enemy_bullets' = <<>>

\* C8, amended: the tick that takes the last life discards nothing: the
\* enemy-bullet list still holds the bullet that hit (no longer alive) and
\* the enemy list still holds a boss that was not killed; the three lists
\* stay as they are for as long as the state is GAME_OVER; the step that
\* leaves GAME_OVER (the restart) empties them.
C8_KeptUntilRestart == [][C8_Step]_vars

\* after a loss and a further update, enemies and bullets are still there
C8_Witness ==
    /\ state = GAME_OVER
    /\ over_cause = "lives"
    /\ last.from = GAME_OVER
    /\ enemies # <<>>
    /\ player_bullets # <<>>
    /\ enemy_bullets # <<>>

C9_Step ==
    last'.op = "restart" =>
        /\ state = GAME_OVER
        /\ state' = PLAYING
        /\ world_index' = 0
        /\ world' = WORLD_CONFIGS[1]
        /\ player'.aura = 0
        /\ player'.lives = WORLD_CONFIGS[1].starting_lives
        /\ enemies' = <<>>
        /\ player_bullets' = <<>>
        /\ enemy_bullets' = <<>>
        /\ pickups' = <<>>
        /\ ~boss_spawned'
        /\ ~boss_defeated'

\* C9: the restart key pressed in GAME_OVER, after a loss or after a victory,
\* gives PLAYING with world_index 0, the first entry of the table as active
\* configuration, aura 0, the starting lives of the first world, no enemy, no
\* bullet, no pickup, and both boss flags cleared.
C9_RestartResets == [][C9_Step]_vars

\* the game has been restarted after a victory
C9_Witness ==
    /\ last.op = "restart"
    /\ over_cause = "victory"
    /\ state = PLAYING
    /\ world_index = 0
    /\ player.aura = 0

\* C10, as the claim states it: player.lives is never below 0.
C10_LivesNonNegative == player.lives >= 0

\* C11, as the claim states it: the step from WORLD_COMPLETE to PLAYING
\* leaves the player's lives, like the aura, at the value they had when the
\* world was completed.
C11_LivesCarriedOver ==
    [][state = WORLD_COMPLETE /\ state' = PLAYING =>
           player'.lives = wc_entry.lives /\ player'.aura = wc_entry.aura]_vars

C11_Step ==
    /\ state' = WORLD_COMPLETE =>
           player'.lives = wc_entry'.lives /\ player'.aura = wc_entry'.aura
    /\ state = WORLD_COMPLETE /\ state' = PLAYING =>
           /\ player'.aura = wc_entry.aura
           /\ player'.lives = WORLD_CONFIGS[world_index' + 1].starting_lives
           /\ player'.shoot_timer = 0
           /\ enemies' = <<>>
           /\ player_bullets' = <<>>
           /\ enemy_bullets' = <<>>
           /\ pickups' = <<>>
           /\ ~boss_spawned'
           /\ ~boss_defeated'

\* C11, amended: the aura is the player state that persists across worlds.
\* The step from WORLD_COMPLETE to PLAYING keeps the aura the player had when
\* the world was completed and sets the lives to starting_lives of the new
\* world, whatever they were; enemies, bullets and pickups are emptied and
\* both boss flags cleared.  (Aura and lives do not change while the state is
\* WORLD_COMPLETE.)
C11_AuraCarriedLivesReset == [][C11_Step]_vars

\* the next world has started with other lives than the last one ended with
C11_Witness ==
    /\ state = PLAYING
    /\ last.from = WORLD_COMPLETE
    /\ wc_entry.lives = 1
    /\ player.lives = world.starting_lives
    /\ player.lives # wc_entry.lives
    /\ player.aura = wc_entry.aura

(***************************************************************************)
(* The log of the last tick's handle_collisions.                           *)
(***************************************************************************)
Events == last.events
PickupEvents == {i \in 1..Len(Events) : Events[i].kind = "pickup"}
HitEvents == {i \in 1..Len(Events) : Events[i].kind = "hit"}
PlayerEvents == {i \in 1..Len(Events) : Events[i].kind = "player"}
Kills == {i \in HitEvents : Events[i].removed}

\* C12: every hit of a player bullet lowers the enemy's hp by the bullet's
\* damage; the enemy is removed in that hit exactly when the hp it is left
\* with is zero or less; an enemy that is hit again in the same tick is hit at
\* the hp the earlier hit left, and an enemy that was removed is in no later
\* hit, whatever bullets are in contact with it; after the tick every enemy
\* has hp > 0.
C12_HitsAndRemovals ==
    /\ \A i \in HitEvents :
          /\ Events[i].hp_after = Events[i].hp_before - Events[i].damage
          /\ Events[i].removed <=> Events[i].hp_after <= 0
          /\ \A j \in HitEvents :
                i < j /\ Events[j].enemy = Events[i].enemy
                => /\ ~Events[i].removed
                   /\ (\A m \in HitEvents :
                          i < m /\ m < j => Events[m].enemy # Events[i].enemy)
                      => Events[j].hp_before = Events[i].hp_after
    /\ \A k \in 1..Len(enemies) : enemies[k].hp > 0

\* two bullets were in contact with the same enemy, the first one killed it
\* and the second one hit nothing
C12_Witness ==
    /\ \E e \in 1..2 : {<<"enemy", 1, e>>, <<"enemy", 2, e>>} = last.contacts
    /\ Cardinality(HitEvents) = 1
    /\ Kills = HitEvents
    /\ \A i \in Kills : Events[i].hp_after = 0


\* C13: in one tick a player bullet is in at most one hit, whatever enemies
\* it is in contact with, and an enemy bullet in at most one hit on the
\* player, which takes its damage off the lives; the bullet of a hit was
\* alive until that hit, so that a bullet a hit has consumed (alive = False)
\* is in no hit of a later tick.
C13_OneHitPerBullet ==
    /\ \A i, j \in HitEvents : Events[i].bullet = Events[j].bullet => i = j
    /\ \A i, j \in PlayerEvents : Events[i].bullet = Events[j].bullet => i = j
    /\ \A i \in HitEvents \cup PlayerEvents : Events[i].alive
    /\ \A i \in PlayerEvents :
          Events[i].lives_after = Events[i].lives_before - Events[i].damage

\* the first bullet was in contact with two enemies and hit the first only,
\* which survived; the bullet is still in the list, consumed
C13_Witness ==
    /\ last.contacts = {<<"enemy", 1, 1>>, <<"enemy", 1, 2>>}
    /\ Cardinality(HitEvents) = 1
    /\ \A i \in HitEvents : Events[i].enemy = 1 /\ ~Events[i].removed
    /\ Len(enemies) = 2
    /\ \E b \in 1..Len(player_bullets) : ~player_bullets[b].alive

\* the last step was a tick of update_playing
AfterPlayingTick == last.op = "update" /\ last.from = PLAYING

\* what the kill of an enemy is worth
KillReward(level, boss) == 10 + 4 * level + (IF boss THEN 45 ELSE 0)

\* what an entry of the log is worth by the rules of the game
Credit(ev) ==
    IF ev.kind = "pickup" THEN world.aura_gain_per_pickup
    ELSE IF ev.kind = "hit" /\ ev.removed THEN KillReward(ev.level, ev.boss)
    ELSE 0

RECURSIVE Credits(_)
\* the sum of Credit over the first n entries of the log
Credits(n) == IF n = 0 THEN 0 ELSE Credits(n - 1) + Credit(Events[n])

\* C14: over a tick of update_playing the aura grows by the active world's
\* aura_gain_per_pickup for every pickup collected and by 10 + 4 * level
\* (+ 45 for a boss) for every enemy whose hp a hit took to zero or less,
\* and by nothing else; every such pickup and enemy is in the log once and
\* is gone from its list; boss_defeated is set exactly by the removal of a
\* boss.
C14_AuraAccounting ==
    AfterPlayingTick =>
        /\ player.aura = last.aura_before + Credits(Len(Events))
        /\ \A i \in PickupEvents \cup HitEvents :
              Events[i].aura_after = Events[i].aura_before + Credit(Events[i])
        /\ \A i, j \in PickupEvents :
              Events[i].pickup = Events[j].pickup => i = j
        /\ \A i, j \in Kills : Events[i].enemy = Events[j].enemy => i = j
        /\ Len(pickups) = last.pickups_before + last.spawned_pickup
                              - Cardinality(PickupEvents)
        /\ Len(enemies) = last.enemies_before + last.spawned_boss
                              + last.spawned_enemy - Cardinality(Kills)
        /\ boss_defeated <=> \/ last.boss_defeated_before
                              \/ \E i \in Kills : Events[i].boss
        /\ \A i \in HitEvents :
              Events[i].boss_defeated <=>
                  \/ last.boss_defeated_before
                  \/ \E j \in Kills : j <= i /\ Events[j].boss

\* a tick in the last world in which a pickup was collected and the boss
\* killed
C14_Witness ==
    /\ AfterPlayingTick
    /\ world_index = NumWorlds - 1
    /\ Cardinality(PickupEvents) = 1
    /\ \E i \in Kills : Events[i].boss
    /\ boss_defeated
    /\ player.aura = last.aura_before + world.aura_gain_per_pickup
                        + KillReward(world.boss_level, TRUE)

\* C15: there are never more than 8 pickups; a tick of update_playing adds
\* at most one, and adds one exactly when there were fewer than 8 as
\* handle_spawning started and the draw fell below the spawn rate.
C15_PickupCap ==
    /\ Len(pickups) <= PickupCap
    /\ AfterPlayingTick =>
          /\ last.spawned_pickup \in {0, 1}
          /\ last.spawned_pickup = 1
                <=> last.pickups_before < PickupCap /\ last.pickup_roll

\* a tick that started with 8 pickups and added none, whatever the draw
C15_Witness ==
    /\ AfterPlayingTick
    /\ last.pickups_before = PickupCap
    /\ last.pickup_roll
    /\ last.spawned_pickup = 0
    /\ Len(pickups) = PickupCap

\* C16: world_index is an index of WORLD_CONFIGS, and world the entry it
\* names, in PLAYING and in WORLD_COMPLETE; world_index is the length of the
\* table only in the GAME_OVER that follows the completion of the last world,
\* and world is then still the last entry: reset_world has not run with that
\* index.
C16_WorldIndexInRange ==
    /\ world_index \in 0..NumWorlds
    /\ state \in {PLAYING, WORLD_COMPLETE} => world_index < NumWorlds
    /\ world_index < NumWorlds => world = WORLD_CONFIGS[world_index + 1]
    /\ world_index = NumWorlds =>
          /\ state = GAME_OVER
          /\ over_cause = "victory"
          /\ world = WORLD_CONFIGS[NumWorlds]
          /\ last.op = "update"

\* the last world was completed and world_index stepped past the table
C16_Witness ==
    /\ world_index = NumWorlds
    /\ state = GAME_OVER
    /\ last = Last("update", WORLD_COMPLETE)
    /\ wc_entry.world_index = NumWorlds - 1

\* the enemies (by their index when handle_collisions started) removed by
\* the hits of the log before the i-th entry
RemovedBefore(i) == {Events[j].enemy : j \in {k \in Kills : k < i}}

\* the enemies bullet b is in contact with
Touched(b) == {p[3] : p \in {q \in last.contacts : q[1] = "enemy" /\ q[2] = b}}

\* C17: two circles whose centres are exactly the sum of the radii apart
\* collide, and two that are farther apart do not, in each of the three
\* tests of handle_collisions: the pickups collected are the pickups at that
\* distance from the player, the enemy bullets that hit the player are the
\* ones at that distance from the player, and a player bullet hits the first
\* enemy at that distance from it that is still in the list, if there is one.
C17_InclusiveBoundary ==
    AfterPlayingTick =>
        /\ {Events[i].pickup : i \in PickupEvents}
              = {p[2] : p \in {q \in last.contacts : q[1] = "pickup"}}
        /\ {Events[i].bullet : i \in PlayerEvents}
              = {p[2] : p \in {q \in last.contacts : q[1] = "player"}}
        /\ \A i \in HitEvents :
              LET left == Touched(Events[i].bullet) \ RemovedBefore(i)
              IN /\ Events[i].enemy \in left
                 /\ \A e \in left : Events[i].enemy <= e
        /\ \A p \in last.contacts :
              p[1] = "enemy" =>
                  \/ \E i \in HitEvents : Events[i].bullet = p[2]
                  \/ \E i \in Kills :
                        Events[i].enemy = p[3] /\ Events[i].bullet < p[2]

\* a tick in which a player bullet was at touching distance from the boss
\* and a boss bullet at touching distance from the player, and both hit,
\* while a pickup one pixel farther from the player was left where it is
C17_Witness ==
    /\ AfterPlayingTick
    /\ last.contacts = {<<"enemy", 1, 1>>, <<"player", 1, 0>>}
    /\ Cardinality(HitEvents) = 1
    /\ Cardinality(PlayerEvents) = 1
    /\ PickupEvents = {}
    /\ Len(pickups) = 1

\* the fields of Game a tick outside PLAYING leaves alone
Frame == <<world_index, world, player, enemies, player_bullets,
           enemy_bullets, pickups, boss_spawned, boss_defeated>>

C21_Step ==
    /\ state = WORLD_COMPLETE /\ wc_ticks' # wc_ticks /\ state_timer - 1 > 0 =>
          /\ state' = WORLD_COMPLETE
          /\ state_timer' = state_timer - 1
          /\ UNCHANGED Frame
    /\ state = GAME_OVER /\ last'.op # "restart" =>
          /\ state' = GAME_OVER
          /\ UNCHANGED state_timer
          /\ UNCHANGED Frame

\* C21: an update in WORLD_COMPLETE that does not take state_timer to zero
\* takes one off state_timer and leaves the state, world_index, the active
\* configuration, the player (aura, lives, position and the rest), the
\* enemies, the bullets, the pickups and the boss flags as they are; an
\* update in GAME_OVER leaves all of these and state_timer as they are.
C21_IdleTicks == [][C21_Step]_vars

\* an update ran in WORLD_COMPLETE with the countdown still running, bullets
\* of both sides and a pickup on the screen and the player away from where
\* Player.__init__ puts it
C21_Witness ==
    /\ state = WORLD_COMPLETE
    /\ last = Last("update", WORLD_COMPLETE)
    /\ wc_ticks = 2
    /\ state_timer = FPS * 2 - 2
    /\ player_bullets # <<>>
    /\ enemy_bullets # <<>>
    /\ pickups # <<>>
    /\ player.pos # Player(world).pos
    /\ player.lives < world.starting_lives

\* the state is the one reset_world left: R was pressed in GAME_OVER, or
\* the countdown of WORLD_COMPLETE ran out with a world still to play
AfterReset ==
    \/ last.op = "restart"
    \/ last = Last("update", WORLD_COMPLETE) /\ state = PLAYING

\* C22: in every reachable state boss_defeated implies boss_spawned, enemies
\* holds at most one boss, a boss is in enemies only while boss_spawned is
\* true and boss_defeated is false, and in the state reset_world leaves (on
\* a restart and on the advance to the next world) both flags are false.
C22_BossCoherence ==
    /\ boss_defeated => boss_spawned
    /\ BossCount(enemies) <= 1
    /\ BossCount(enemies) > 0 => boss_spawned /\ ~boss_defeated
    /\ AfterReset => ~boss_spawned /\ ~boss_defeated

\* the boss of a world that was reset to is in enemies: the countdown of
\* WORLD_COMPLETE ran out, the next world was entered with the flags false,
\* and an update of that world has just spawned its boss
C22_Witness ==
    /\ state = PLAYING
    /\ world_index > 0
    /\ wc_ticks = FPS * 2
    /\ last.op = "update" /\ last.from = PLAYING
    /\ last.spawned_boss = 1
    /\ BossCount(enemies) = 1
    /\ boss_spawned /\ ~boss_defeated

(***************************************************************************)
(* Properties of SpecRun.                                                  *)
(***************************************************************************)
\* the cooldown of an enemy by level and kind
Cooldown(e) == Max(24, 120 - 6 * e.level - (IF e.boss THEN 30 ELSE 0))

C18_Step ==
    run'.tick # run.tick =>
        /\ Len(enemies') = Len(enemies)
        /\ \A k \in 1..Len(enemies) :
              /\ enemies[k].shoot_cd = Cooldown(enemies[k])
              /\ enemies'[k].shoot_timer =
                     IF enemies[k].shoot_timer - 1 <= 0
                     THEN Cooldown(enemies[k])
                     ELSE enemies[k].shoot_timer - 1
              /\ 1 <= enemies'[k].shoot_timer
              /\ enemies'[k].shoot_timer <= Cooldown(enemies[k])
        /\ last'.enemy_fired =
              Cardinality({k \in 1..Len(enemies) : enemies[k].shoot_timer - 1 <= 0})
        /\ Len(enemy_bullets') >= last'.enemy_fired
        /\ \A j \in 1..Len(enemy_bullets') : enemy_bullets'[j].damage = 1
        /\ Len(enemies) > 0 =>
              /\ run'.shot_gap \in {0, Cooldown(enemies[1])}
              /\ run'.since_shot >= 0 =>
                    run'.since_shot = Cooldown(enemies[1]) - enemies'[1].shoot_timer

\* C18: in a tick of update_playing the shoot timer of an enemy goes down by
\* one; if that takes it to zero or less the enemy fires one bullet, of
\* damage 1, and the timer is set to max(24, 120 - 6 * level - (30 if boss)),
\* so that the timer is between 1 and that cooldown after the tick and the
\* shots of the enemy are exactly the cooldown apart.
C18_EnemyShootTimer == [][C18_Step]_vars

\* the level-1 enemy has just fired for the second time, 114 ticks after the
\* first
C18_Witness ==
    /\ state = PLAYING
    /\ last.enemy_fired = 1
    /\ run.since_shot = 0
    /\ ~enemies[1].boss
    /\ run.shot_gap = 114
    /\ enemies[1].shoot_timer = enemies[1].shoot_cd
    /\ Len(enemy_bullets) = 1

\* the player's shoot timer as try_shoot finds it, after Player.update
TimerAtTryShoot ==
    IF player.shoot_timer > 0 THEN player.shoot_timer - 1 ELSE player.shoot_timer

\* what a tick of update_playing does to the player's shoot timer
C19_Tick ==
    /\ last'.fired > 0 <=> run'.space /\ TimerAtTryShoot <= 0
    /\ player'.shoot_timer = IF last'.fired > 0 THEN 10 ELSE TimerAtTryShoot
    /\ Len(player_bullets') >= last'.fired

\* C19 as the specification states it: a tick of update_playing fires a
\* volley exactly when SPACE is down and the player's shoot timer is zero or
\* less, the volley sets the timer to 10, and any two volleys in a row are at
\* least 10 ticks apart, exactly 10 with SPACE down all along.
C19_AnyTwoVolleys ==
    [][/\ state # PLAYING => Len(player_bullets') <= Len(player_bullets)
       /\ run'.tick # run.tick =>
             /\ C19_Tick
             /\ run'.volley_gap = 0 \/ run'.volley_gap >= 10
             /\ run'.volley_held => run'.volley_gap = 10]_vars

C19_Step ==
    /\ state # PLAYING => Len(player_bullets') <= Len(player_bullets)
    /\ run'.tick # run.tick =>
          /\ C19_Tick
          /\ ~run'.volley_reset =>
                /\ run'.volley_gap = 0 \/ run'.volley_gap >= 10
                /\ run'.volley_held => run'.volley_gap = 10
          /\ run'.volley_reset => run'.volley_gap >= 1

\* C19: a tick of update_playing fires a volley exactly when SPACE is down
\* and the player's shoot timer, once Player.update has taken the tick off
\* it, is zero or less; the volley sets the timer to 10; two volleys in a row
\* of the same game are 10 ticks apart or more, and exactly 10 when SPACE
\* was down in every tick between them.  A restart gives the new player a
\* timer of zero, and the first volley of the new game can follow the last
\* volley of the old one in the next tick.
C19_PlayerShootTimer == [][C19_Step]_vars

\* a volley 10 ticks after the one before, SPACE down all along, in a game
\* that was not restarted between the two
C19_Witness ==
    /\ last.fired > 0
    /\ run.since_volley = 0
    /\ run.volley_held
    /\ ~run.volley_reset
    /\ run.volley_gap = 10
    /\ player.shoot_timer = 10

\* the weapon tier of an aura by the thresholds 100, 250 and 500
Tier(aura) ==
    CASE aura < 100 -> "I"
      [] 100 <= aura /\ aura < 250 -> "II"
      [] 250 <= aura /\ aura < 500 -> "III"
      [] aura >= 500 -> "IV"

\* the bullets of a volley of a tier
TierBullets(tier) ==
    CASE tier = "I" -> 1 [] tier = "II" -> 2 [] tier = "III" -> 3 [] tier = "IV" -> 5

\* C20: Player.weapon_level is the tier of the aura by the thresholds 100,
\* 250 and 500 (a threshold belongs to the tier above it); a volley adds 1,
\* 2, 3 or 5 bullets for the tiers I to IV of the aura it is fired with, and
\* every bullet of the player has damage 5.
C20_WeaponTier ==
    /\ weapon_level(player.aura) = Tier(player.aura)
    /\ Len(bullet_pattern(player.aura)) = TierBullets(Tier(player.aura))
    /\ AfterPlayingTick =>
          last.fired \in {0, TierBullets(Tier(last.aura_before))}
    /\ \A b \in 1..Len(player_bullets) : player_bullets[b].damage = 5

\* a volley fired with an aura of exactly 500: five bullets
C20_Witness ==
    /\ AfterPlayingTick
    /\ last.aura_before = 500
    /\ last.fired = 5
    /\ Len(player_bullets) = 5
    /\ weapon_level(player.aura) = "IV"

====
